---------------------------- MODULE Spec2Model ----------------------------
(***************************************************************************)
(* Model of metadata_from_tabular.py: the `run` command, the preprocessing *)
(* closure returned by apply_config, and the helpers they call.            *)
(*                                                                         *)
(* Strings are sequences of one-character strings, so that prefix tests,   *)
(* LIKE patterns and pathlib joins are computed on their characters.       *)
(* Column names and sheet names are atoms (TLA+ strings): the code only    *)
(* compares them for equality.  Cell values are strings.                   *)
(***************************************************************************)
EXTENDS Integers, Sequences, FiniteSets, TLC

VARIABLES
    yml,        \* the parsed configuration (yaml.safe_load)
    data,       \* the tabular file as parse_tabular_file returns it
    store,      \* the iRODS catalog: a sequence of data objects
    dry_run,    \* the --dry-run flag
    pc,         \* position in run (or in a single helper call)
    session,    \* "none", "open" or "closed": the iRODSSession context
    sheets,     \* the dictionary process_file returned, in insertion order
    si,         \* index in sheets of the sheet the outer loop is at
    ri,         \* index of the next row generate_rows yields
    n,          \* run's n
    errors,     \* run's errors
    md_dict,    \* run's md_dict: Unbound until the first row is yielded
    calls,      \* history: the remote calls made, in order
    results,    \* history: per processed row, [sheet, path, res]
    reports,    \* history: what console.print reported per sheet
    exc,        \* "none", or the exception that ended run
    args,       \* arguments of a helper called on its own
    ret         \* what that helper returned

vars == << yml, data, store, dry_run, pc, session, sheets, si, ri, n, errors,
           md_dict, calls, results, reports, exc, args, ret >>

-----------------------------------------------------------------------------
(* Bounds *)

MaxRows == 2

-----------------------------------------------------------------------------
(* Strings *)

DATAOBJECT == "dataobject"

RECURSIVE SeqRange(_)
SeqRange(s) == IF s = << >> THEN {} ELSE {Head(s)} \cup SeqRange(Tail(s))

\* SQL LIKE as the catalog evaluates it: % is any run of characters, _ any
\* one character, everything else itself.
RECURSIVE Like(_, _)
Like(p, s) ==
    IF p = << >> THEN s = << >>
    ELSE IF Head(p) = "%"
         THEN Like(Tail(p), s) \/ (s # << >> /\ Like(p, Tail(s)))
         ELSE /\ s # << >>
              /\ (Head(p) = "_" \/ Head(p) = Head(s))
              /\ Like(Tail(p), Tail(s))

LowerOrUnderscore ==
    { "a", "b", "c", "d", "e", "f", "g", "h", "i", "j", "k", "l", "m", "n",
      "o", "p", "q", "r", "s", "t", "u", "v", "w", "x", "y", "z", "_" }

\* re.match("/[a-z_]+/home/", s): the number of characters matched, 0 if none
ZoneHomeLen(s) ==
    LET home == << "/", "h", "o", "m", "e", "/" >>
        ks == { k \in 1..Len(s) :
                  /\ Len(s) >= 1 + k + Len(home)
                  /\ s[1] = "/"
                  /\ \A j \in 2..(k + 1) : s[j] \in LowerOrUnderscore
                  /\ SubSeq(s, k + 2, k + 1 + Len(home)) = home }
    IN  IF ks = {} THEN 0 ELSE 1 + (CHOOSE k \in ks : TRUE) + Len(home)

\* re.match("/[a-z_]+/home/[^/]+/?", workdir), the test setup puts a
\* working directory to
MatchesWorkdirShape(s) ==
    /\ ZoneHomeLen(s) > 0
    /\ Len(s) > ZoneHomeLen(s)
    /\ s[ZoneHomeLen(s) + 1] # "/"

\* the subsequence of u at the positions in S, in u's order
SubSeqAt(u, S) ==
    LET F[i \in 0..Len(u)] ==
            IF i = 0 THEN << >>
            ELSE IF i \in S THEN Append(F[i - 1], u[i]) ELSE F[i - 1]
    IN  F[Len(u)]

-----------------------------------------------------------------------------
(* The catalog *)

ZHome == << "/", "z", "/", "h", "o", "m", "e" >>
WD    == ZHome \o << "/", "p" >>
WDSibling == ZHome \o << "/", "p", "2" >>
WDSub == WD \o << "/", "s" >>
OtherZone == << "/", "Z", "/", "h", "o", "m", "e", "/", "p" >>

\* writable: whether apply_atomic_operations on the object succeeds (it raises
\* otherwise); avus: the metadata the object carries
Obj(c, nm, w) == [coll |-> c, name |-> nm, writable |-> w, avus |-> {}]

\* a data object's full path, as f"{Collection.name}/{DataObject.name}"
ObjPath(o) == o.coll \o << "/" >> \o o.name

StoreUniverse ==
    << Obj(WD, << "a" >>, TRUE),
       Obj(WD, << "a", "b" >>, FALSE),
       Obj(WDSub, << "a" >>, TRUE),
       Obj(WDSibling, << "a" >>, TRUE),
       Obj(WD, << "a", "%" >>, TRUE),
       Obj(OtherZone, << "a" >>, TRUE) >>

Stores == { SubSeqAt(StoreUniverse, S) : S \in SUBSET (1..Len(StoreUniverse)) }

\* the query of search_objects_with_identifier: both criteria carry the
\* operand with "%" appended; the operator on the name is "=" or "like"
QueryMatches(o, workingdirectory, identifier, exact_match) ==
    /\ Like(workingdirectory \o << "%" >>, o.coll)
    /\ IF exact_match
       THEN o.name = identifier \o << "%" >>
       ELSE Like(identifier \o << "%" >>, o.name)

search_objects_with_identifier(st, workingdirectory, identifier, exact_match) ==
    LET hits == SelectSeq(st, LAMBDA o :
                    QueryMatches(o, workingdirectory, identifier, exact_match))
    IN  [i \in 1..Len(hits) |-> ObjPath(hits[i])]

-----------------------------------------------------------------------------
(* pathlib: str(Path(w) / Path(x)) on POSIX *)

RECURSIVE SplitAcc(_, _, _)
SplitAcc(s, cur, acc) ==
    IF s = << >> THEN Append(acc, cur)
    ELSE IF Head(s) = "/"
         THEN SplitAcc(Tail(s), << >>, Append(acc, cur))
         ELSE SplitAcc(Tail(s), Append(cur, Head(s)), acc)

\* the components of a path: empty components and "." are dropped
PathParts(s) ==
    SelectSeq(SplitAcc(s, << >>, << >>),
              LAMBDA c : Len(c) > 0 /\ ~(Len(c) = 1 /\ c[1] = "."))

RECURSIVE LeadingSlashes(_)
LeadingSlashes(s) ==
    IF s # << >> /\ Head(s) = "/" THEN 1 + LeadingSlashes(Tail(s)) ELSE 0

\* the root of a path: exactly two leading slashes are kept, any other
\* positive number is one slash
PathRoot(s) ==
    CASE LeadingSlashes(s) = 0 -> << >>
      [] LeadingSlashes(s) = 2 -> << "/", "/" >>
      [] OTHER -> << "/" >>

RECURSIVE JoinParts(_)
JoinParts(ps) ==
    IF ps = << >> THEN << >>
    ELSE IF Len(ps) = 1 THEN ps[1]
    ELSE ps[1] \o << "/" >> \o JoinParts(Tail(ps))

PathStr(root, parts) ==
    IF root = << >> /\ parts = << >> THEN << "." >>
    ELSE root \o JoinParts(parts)

\* str(Path(w) / Path(x)): an x with a root replaces w altogether
PathJoin(w, x) ==
    IF PathRoot(x) # << >>
    THEN PathStr(PathRoot(x), PathParts(x))
    ELSE PathStr(PathRoot(w), PathParts(w) \o PathParts(x))

-----------------------------------------------------------------------------
(* Tables: [columns: sequence of names, rows: sequence of name -> value] *)

Table(cols, rws) == [columns |-> cols, rows |-> rws]

HasColumn(df, c) == c \in SeqRange(df.columns)

DropCol(cols, c) == SelectSeq(cols, LAMBDA x : x # c)

\* Series.drop(filename_column) followed by new_row[DATAOBJECT] = path
ExpandedRow(row, filename_column, path) ==
    [c \in (DOMAIN row \ {filename_column}) \cup {DATAOBJECT} |->
        IF c = DATAOBJECT THEN path ELSE row[c]]

ExpandedColumns(cols, filename_column) ==
    LET kept == DropCol(cols, filename_column)
    IN  IF DATAOBJECT \in SeqRange(kept) THEN kept ELSE Append(kept, DATAOBJECT)

\* a remote call, as the history records it
SearchCall(workingdirectory, identifier) == [op |-> "query", arg |-> identifier]

\* The rows query_dataobjects_with_filename collects for source rows i..Len:
\* one per path the search returns, in source order, then result order.
RECURSIVE NewRows(_, _, _, _, _, _)
NewRows(st, df, filename_column, workingdirectory, exact_match, i) ==
    IF i > Len(df.rows) THEN << >>
    ELSE LET row   == df.rows[i]
             paths == search_objects_with_identifier(
                          st, workingdirectory, row[filename_column], exact_match)
         IN  [k \in 1..Len(paths) |->
                 ExpandedRow(row, filename_column, paths[k])]
             \o NewRows(st, df, filename_column, workingdirectory,
                        exact_match, i + 1)

\* faulty variant: only the first path of each search is kept
query_first_match_only(st, df, filename_column, workingdirectory, exact_match) ==
    IF ~HasColumn(df, filename_column)
    THEN [exc |-> "KeyError", df |-> df, calls |-> << >>]
    ELSE LET hit == SelectSeq(df.rows, LAMBDA row :
                        search_objects_with_identifier(st, workingdirectory,
                            row[filename_column], exact_match) # << >>)
         IN  [exc   |-> "none",
              df    |-> Table(Append(DropCol(df.columns, filename_column),
                                     DATAOBJECT),
                          [i \in 1..Len(hit) |->
                              ExpandedRow(hit[i], filename_column,
                                  search_objects_with_identifier(st,
                                      workingdirectory, hit[i][filename_column],
                                      exact_match)[1])]),
              calls |-> << >>]

\* Returns [exc, df, calls]: df[filename_column] raises KeyError when the
\* column is missing, before any search is made.
query_dataobjects_with_filename(st, df, filename_column, workingdirectory, exact_match) ==
    IF ~HasColumn(df, filename_column)
    THEN [exc |-> "KeyError", df |-> df, calls |-> << >>]
    ELSE LET new_rows == NewRows(st, df, filename_column, workingdirectory,
                                 exact_match, 1)
             searches == [i \in 1..Len(df.rows) |->
                            SearchCall(workingdirectory,
                                       df.rows[i][filename_column])]
         IN  [exc   |-> "none",
              df    |-> IF Len(new_rows) > 0
                        THEN Table(ExpandedColumns(df.columns, filename_column),
                                   new_rows)
                        ELSE Table(Append(DropCol(df.columns, filename_column),
                                          DATAOBJECT), << >>),
              calls |-> searches]

\* DataFrame.rename(columns={old: new}): a missing old column renames nothing
RenameColumn(df, old, new) ==
    IF ~HasColumn(df, old) THEN df
    ELSE Table([i \in 1..Len(df.columns) |->
                   IF df.columns[i] = old THEN new ELSE df.columns[i]],
               [i \in 1..Len(df.rows) |->
                   [c \in (DOMAIN df.rows[i] \ {old}) \cup {new} |->
                       IF c = new THEN df.rows[i][old] ELSE df.rows[i][c]]])

\* faulty variant: the column is renamed and the working directory never prepended
chain_without_workdir(df, filename_column, workingdirectory) ==
    [exc |-> IF HasColumn(df, filename_column) THEN "none" ELSE "KeyError",
     df  |-> RenameColumn(df, filename_column, DATAOBJECT)]

\* Returns [exc, df]: df[DATAOBJECT] raises KeyError when the rename found
\* no column to rename.
chain_collection_and_filename(df, filename_column, workingdirectory) ==
    LET renamed == RenameColumn(df, filename_column, DATAOBJECT)
    IN  IF ~HasColumn(renamed, DATAOBJECT)
        THEN [exc |-> "KeyError", df |-> renamed]
        ELSE [exc |-> "none",
              df  |-> Table(renamed.columns,
                        [i \in 1..Len(renamed.rows) |->
                            [renamed.rows[i] EXCEPT
                                ![DATAOBJECT] = PathJoin(workingdirectory, @)]])]

\* sheet[[c for c in sheet.columns if ...]], keep being the names for which
\* the condition holds
SelectColumns(df, keep) ==
    Table(SelectSeq(df.columns, LAMBDA c : c \in keep),
          [i \in 1..Len(df.rows) |->
              [c \in DOMAIN df.rows[i] \cap keep |-> df.rows[i][c]]])

\* the whitelist / blacklist step of process_tabular_file
FilterColumns(y, df) ==
    IF "whitelist" \in DOMAIN y
    THEN SelectColumns(df, { c \in SeqRange(df.columns) :
             c \in {DATAOBJECT} \cup SeqRange(y.whitelist) })
    ELSE IF "blacklist" \in DOMAIN y
    THEN SelectColumns(df, { c \in SeqRange(df.columns) :
             c \notin SeqRange(y.blacklist) })
    ELSE df

-----------------------------------------------------------------------------
(* Core: rows, AVUs and the application of one row *)

\* iRODSMeta(str(key), str(value)); cell values are strings already
dict_to_avus(row) == { [name |-> k, value |-> row[k]] : k \in DOMAIN row }

\* the dictionary generate_rows yields beside row[DATAOBJECT]
RowMetadata(row) == [k \in DOMAIN row \ {DATAOBJECT} |-> row[k]]

\* session.data_objects.get(path): the positions in the catalog of the object
\* whose collection and name make up path
Lookup(st, path) == { i \in 1..Len(st) : ObjPath(st[i]) = path }

GetCall(path) == [op |-> "get", arg |-> path]
AddCall(path) == [op |-> "add", arg |-> path]

\* faulty variant: the except clause reports success
apply_metadata_swallowing(path, avu_dict, st) ==
    [res |-> TRUE, store |-> st, calls |-> << GetCall(path) >>]

\* Returns [res, store, calls].  Every exception (object not found, the
\* atomic operation refused) is caught and becomes res = FALSE.
apply_metadata_to_data_object(path, avu_dict, st) ==
    IF Lookup(st, path) = {}
    THEN [res |-> FALSE, store |-> st, calls |-> << GetCall(path) >>]
    ELSE LET i == CHOOSE j \in Lookup(st, path) : TRUE
             both == << GetCall(path), AddCall(path) >>
         IN  IF ~st[i].writable
             THEN [res |-> FALSE, store |-> st, calls |-> both]
             ELSE [res   |-> TRUE,
                   store |-> [st EXCEPT ![i].avus = @ \cup dict_to_avus(avu_dict)],
                   calls |-> both]

-----------------------------------------------------------------------------
(* apply_config: the preprocessing closure *)

PathType(y) == y.path_column.path_type
HasWorkdir(y) == "workdir" \in DOMAIN y.path_column

\* What process_tabular_file does with one selected sheet:
\* [exc, skip, df, calls].
ResolveSheet(y, st, df) ==
    LET path_column_name == y.path_column.column_name
    IN  IF PathType(y) = "part"
        THEN IF ~HasWorkdir(y)
             THEN [exc |-> "KeyError", skip |-> FALSE, df |-> df, calls |-> << >>]
             ELSE LET q == query_dataobjects_with_filename(
                               st, df, path_column_name, y.path_column.workdir, FALSE)
                  IN  [exc   |-> q.exc,
                       skip  |-> q.exc = "none" /\ Len(q.df.rows) = 0,
                       df    |-> q.df,
                       calls |-> q.calls]
        ELSE IF PathType(y) = "relative"
        THEN IF ~HasWorkdir(y)
             THEN [exc |-> "KeyError", skip |-> FALSE, df |-> df, calls |-> << >>]
             ELSE LET c == chain_collection_and_filename(
                               df, path_column_name, y.path_column.workdir)
                  IN  [exc |-> c.exc, skip |-> FALSE, df |-> c.df, calls |-> << >>]
        ELSE [exc   |-> "none",
              skip  |-> FALSE,
              df    |-> RenameColumn(df, path_column_name, DATAOBJECT),
              calls |-> << >>]

\* the calls made while a sheet is handled, tagged with the sheet's name
ForSheet(cs, name) ==
    [i \in 1..Len(cs) |-> [sheet |-> name, op |-> cs[i].op, arg |-> cs[i].arg]]

\* the loop of process_tabular_file over sheets.items(), from position i on
RECURSIVE ProcessSheets(_, _, _, _, _, _)
ProcessSheets(y, st, ds, i, done, made) ==
    IF i > Len(ds)
    THEN [exc |-> "none", sheets |-> done, calls |-> made]
    ELSE IF ds[i].name \notin SeqRange(y.sheets)
    THEN ProcessSheets(y, st, ds, i + 1, done, made)
    ELSE LET r == ResolveSheet(y, st, ds[i].df)
         IN  IF r.exc # "none"
             THEN [exc |-> r.exc, sheets |-> << >>,
                   calls |-> made \o ForSheet(r.calls, ds[i].name)]
             ELSE IF r.skip
             THEN ProcessSheets(y, st, ds, i + 1, done,
                      made \o ForSheet(r.calls, ds[i].name))
             ELSE ProcessSheets(y, st, ds, i + 1,
                      Append(done, [name |-> ds[i].name,
                                    df   |-> FilterColumns(y, r.df)]),
                      made \o ForSheet(r.calls, ds[i].name))

\* the sheets of ds that names lists, in the order of names
ByConfigOrder(ds, names) ==
    LET present == SelectSeq(names, LAMBDA nm :
                       \E i \in 1..Len(ds) : ds[i].name = nm)
    IN  [k \in 1..Len(present) |->
            ds[CHOOSE i \in 1..Len(ds) : ds[i].name = present[k]]]

\* faulty variant: the loop runs over yml["sheets"] instead of the file's sheets
process_in_config_order(y, d, st) ==
    IF ~d.readable
    THEN [exc |-> "IOError", sheets |-> << >>, calls |-> << >>]
    ELSE ProcessSheets(y, st, ByConfigOrder(d.sheets, y.sheets), 1, << >>, << >>)

\* Returns [exc, sheets, calls].  parse_tabular_file raises when the file
\* cannot be read; the file is a local one, read without the session.
process_tabular_file(y, d, st) ==
    IF ~d.readable
    THEN [exc |-> "IOError", sheets |-> << >>, calls |-> << >>]
    ELSE ProcessSheets(y, st, d.sheets, 1, << >>, << >>)

-----------------------------------------------------------------------------
(* Inputs *)

Digits == << "1", "2", "3", "4", "5", "6" >>

\* identifier cells: a bare name, a longer name, a full path under the
\* working directory
IdValues == { << "a" >>, << "a", "b" >>, WD \o << "/", "a" >> }

\* more cells for the resolution on its own: a rooted path outside every
\* home, ".", a nested relative path
MoreIdValues == IdValues \cup { << "/", "a" >>, << "." >>, << "s", "/", "a" >> }

\* the rows of a table with columns id and tag; row i carries tag i
IdRows(ids) == [i \in 1..Len(ids) |-> [id |-> ids[i], tag |-> << Digits[i] >>]]

IdSeqs == UNION { [1..k -> IdValues] : k \in 0..MaxRows }

IdTables == { Table(<< "id", "tag" >>, IdRows(ids)) : ids \in IdSeqs }

\* tables without the identifier column
NoIdTable(k) ==
    Table(<< "other", "tag" >>,
          [i \in 1..k |-> [other |-> << "o" >>, tag |-> << Digits[i] >>]])

Sheet(nm, df) == [name |-> nm, df |-> df]

Dataset(shs) == [readable |-> TRUE, sheets |-> shs]

Unreadable == [readable |-> FALSE, sheets |-> << >>]

SecondTables ==
    { Table(<< "id", "tag" >>, << >>),
      Table(<< "id", "tag" >>, IdRows(<< << "a" >> >>)),
      NoIdTable(1) }

Datasets ==
    { Dataset(<< Sheet("s1", t1), Sheet("s2", t2) >>) :
          t1 \in IdTables, t2 \in SecondTables }
    \cup
    { Dataset(<< Sheet("s2", t2), Sheet("s1", t1) >>) :
          t1 \in IdTables, t2 \in SecondTables }

RunStores ==
    { StoreUniverse, << >>, SubSeqAt(StoreUniverse, {1, 2}) }

PathColumns ==
    { [column_name |-> "id", path_type |-> "absolute"],
      [column_name |-> "id", path_type |-> "relative", workdir |-> WD],
      [column_name |-> "id", path_type |-> "part", workdir |-> WD] }

SheetLists == { << "s1", "s2" >>, << "s2", "s1" >>, << "s1" >> }

NoFilter == [x \in {} |-> << >>]

Filters ==
    { NoFilter,
      [whitelist |-> << "tag" >>],
      [blacklist |-> << "tag" >>] }

Config(shs, pcol, filt) == [sheets |-> shs, path_column |-> pcol] @@ filt

Configs ==
    { Config(shs, pcol, filt) :
          shs \in SheetLists, pcol \in PathColumns, filt \in Filters }

\* configurations a hand-written file can hold and setup never writes
BadWorkdir == << "/", "t", "m", "p" >>

\* working directories of the required shape that a LIKE pattern or pathlib
\* does not take literally
WildcardWorkdir == << "/", "_", "/", "h", "o", "m", "e", "/", "p" >>
DotWorkdir == ZHome \o << "/", "." >>

AllPathColumns ==
    PathColumns \cup
    { [column_name |-> "id", path_type |-> "relative"],
      [column_name |-> "id", path_type |-> "part"],
      [column_name |-> "id", path_type |-> "bogus", workdir |-> WD],
      [column_name |-> "id", path_type |-> "relative", workdir |-> BadWorkdir],
      [column_name |-> "id", path_type |-> "part", workdir |-> BadWorkdir] }

AllFilters ==
    Filters \cup
    { [blacklist |-> << DATAOBJECT >>],
      [whitelist |-> << "tag" >>, blacklist |-> << "other" >>] }

AllSheetLists == SheetLists \cup { << "s2", "s3" >> }

AllConfigs ==
    { Config(shs, pcol, filt) :
          shs \in AllSheetLists, pcol \in AllPathColumns, filt \in AllFilters }

FirstTables ==
    { Table(<< "id", "tag" >>, IdRows(<< << "a", "b" >>, << "a" >> >>)),
      Table(<< "id", "tag" >>, IdRows(<< WD \o << "/", "a" >> >>)) }

ConfigDatasets ==
    { Dataset(<< Sheet("s1", t1), Sheet("s2", t2) >>) :
          t1 \in FirstTables, t2 \in SecondTables }
    \cup { Unreadable }

-----------------------------------------------------------------------------
(* run *)

NoDict == [bound |-> FALSE, val |-> << >>]

RunStart ==
    /\ pc = "start"
    /\ session = "none"
    /\ sheets = << >>
    /\ si = 0
    /\ ri = 0
    /\ n = 0
    /\ errors = 0
    /\ md_dict = NoDict
    /\ calls = << >>
    /\ results = << >>
    /\ reports = << >>
    /\ exc = "none"
    /\ args = << >>
    /\ ret = << >>

Init ==
    /\ yml \in Configs
    /\ data \in Datasets
    /\ store \in RunStores
    /\ dry_run \in BOOLEAN
    /\ RunStart

\* process_file = apply_config(config): the file is loaded, nothing is checked
ApplyConfig ==
    /\ pc = "start"
    /\ pc' = "connect"
    /\ UNCHANGED << yml, data, store, dry_run, session, sheets, si, ri, n,
                    errors, md_dict, calls, results, reports, exc, args, ret >>

\* with iRODSSession(...) as session
AcquireSession ==
    /\ pc = "connect"
    /\ session' = "open"
    /\ calls' = Append(calls, [sheet |-> "-", op |-> "session", arg |-> << >>])
    /\ pc' = "process"
    /\ UNCHANGED << yml, data, store, dry_run, sheets, si, ri, n, errors,
                    md_dict, results, reports, exc, args, ret >>

\* sheets = process_file(filename, session)
ProcessFile ==
    /\ pc = "process"
    /\ LET r == process_tabular_file(yml, data, store)
       IN  /\ calls' = calls \o r.calls
           /\ IF r.exc # "none"
              THEN /\ exc' = r.exc
                   /\ pc' = "exit"
                   /\ UNCHANGED << sheets, si >>
              ELSE /\ sheets' = r.sheets
                   /\ si' = 1
                   /\ pc' = "sheet"
                   /\ exc' = exc
    /\ UNCHANGED << yml, data, store, dry_run, session, ri, n, errors,
                    md_dict, results, reports, args, ret >>

\* faulty variant: the counters are set to 0 once, before the loop over the
\* sheets
NextSheetWithoutReset ==
    /\ pc = "sheet"
    /\ IF si > Len(sheets)
       THEN /\ pc' = "exit"
            /\ UNCHANGED ri
       ELSE /\ ri' = 1
            /\ pc' = "rows"
    /\ UNCHANGED << yml, data, store, dry_run, session, sheets, si, n, errors,
                    md_dict, calls, results, reports, exc, args, ret >>

\* for sheetname, sheet in sheets.items(): n = 0; errors = 0
NextSheet ==
    /\ pc = "sheet"
    /\ IF si > Len(sheets)
       THEN /\ pc' = "exit"
            /\ UNCHANGED << n, errors, ri >>
       ELSE /\ n' = 0
            /\ errors' = 0
            /\ ri' = 1
            /\ pc' = "rows"
    /\ UNCHANGED << yml, data, store, dry_run, session, sheets, si, md_dict,
                    calls, results, reports, exc, args, ret >>

\* faulty variant: the dry-run flag is not consulted
RowOutcomeIgnoringDryRun(dry, dataobject, md, st) ==
    apply_metadata_to_data_object(dataobject, md, st)

\* the loop body's res: True without any call in a dry run, otherwise what
\* apply_metadata_to_data_object returns
RowOutcome(dry, dataobject, md, st) ==
    IF dry
    THEN [res |-> TRUE, store |-> st, calls |-> << >>]
    ELSE apply_metadata_to_data_object(dataobject, md, st)

\* one turn of the loop over generate_rows(sheet)
Row ==
    /\ pc = "rows"
    /\ ri <= Len(sheets[si].df.rows)
    /\ LET row == sheets[si].df.rows[ri]
       IN  IF DATAOBJECT \notin DOMAIN row
           THEN /\ exc' = "KeyError"
                /\ pc' = "exit"
                /\ UNCHANGED << store, ri, n, errors, md_dict, calls, results >>
           ELSE LET dataobject == row[DATAOBJECT]
                    a == RowOutcome(dry_run, dataobject, RowMetadata(row), store)
                IN  /\ md_dict' = [bound |-> TRUE, val |-> RowMetadata(row)]
                    /\ store' = a.store
                    /\ calls' = calls \o ForSheet(a.calls, sheets[si].name)
                    /\ n' = IF a.res THEN n + 1 ELSE n
                    /\ errors' = IF a.res THEN errors ELSE errors + 1
                    /\ results' = Append(results,
                           [sheet |-> sheets[si].name, path |-> dataobject,
                            res |-> a.res])
                    /\ ri' = ri + 1
                    /\ UNCHANGED << pc, exc >>
    /\ UNCHANGED << yml, data, dry_run, session, sheets, si, reports, args, ret >>

\* the console.print after the loop: md_dict is whatever the last row
\* yielded left in it, and reading it raises when no row ever did
Report ==
    /\ pc = "rows"
    /\ ri > Len(sheets[si].df.rows)
    /\ IF ~md_dict.bound
       THEN /\ exc' = "UnboundLocalError"
            /\ pc' = "exit"
            /\ UNCHANGED << reports, si >>
       ELSE /\ reports' = Append(reports,
                [sheet |-> sheets[si].name, applied |-> n, errors |-> errors,
                 keys |-> DOMAIN md_dict.val])
            /\ si' = si + 1
            /\ pc' = "sheet"
            /\ exc' = exc
    /\ UNCHANGED << yml, data, store, dry_run, session, sheets, ri, n, errors,
                    md_dict, calls, results, args, ret >>

\* faulty variant: the session is cleaned up only after the last statement
\* of the block, as without the with statement
ExitLeakingOnError ==
    /\ pc = "exit"
    /\ session' = IF exc = "none" THEN "closed" ELSE session
    /\ pc' = "done"
    /\ UNCHANGED << yml, data, store, dry_run, sheets, si, ri, n, errors,
                    md_dict, calls, results, reports, exc, args, ret >>

\* leaving the with block, normally or by an exception
Exit ==
    /\ pc = "exit"
    /\ session' = "closed"
    /\ pc' = "done"
    /\ UNCHANGED << yml, data, store, dry_run, sheets, si, ri, n, errors,
                    md_dict, calls, results, reports, exc, args, ret >>

Next ==
    \/ ApplyConfig
    \/ AcquireSession
    \/ ProcessFile
    \/ NextSheet
    \/ Row
    \/ Report
    \/ Exit

Spec == Init /\ [][Next]_vars

\* run is one sequential process: once process_file has returned, every
\* statement of the batch is executed as long as the remote calls it makes
\* return
FairSpec ==
    /\ Spec
    /\ WF_vars(ApplyConfig)
    /\ WF_vars(AcquireSession)
    /\ WF_vars(NextSheet)
    /\ WF_vars(Row)
    /\ WF_vars(Report)
    /\ WF_vars(Exit)

-----------------------------------------------------------------------------
(* run over every shape of configuration *)

\* run over every shape of configuration, on a few datasets
InitConfig ==
    /\ yml \in AllConfigs
    /\ data \in ConfigDatasets
    /\ store \in { StoreUniverse, << >> }
    /\ dry_run \in BOOLEAN
    /\ RunStart

SpecConfig == InitConfig /\ [][Next]_vars

-----------------------------------------------------------------------------
(* run on one sheet, over every way of resolving its identifiers *)

ResolvePathColumns ==
    { [column_name |-> "id", path_type |-> "absolute"] }
    \cup
    { [column_name |-> "id", path_type |-> t, workdir |-> w] :
          t \in {"relative", "part"},
          w \in {WD, BadWorkdir, WildcardWorkdir, DotWorkdir} }

MoreIdSeqs == UNION { [1..k -> MoreIdValues] : k \in 0..MaxRows }

InitResolve ==
    /\ yml \in { Config(<< "s1" >>, pcol, NoFilter) : pcol \in ResolvePathColumns }
    /\ data \in { Dataset(<< Sheet("s1", Table(<< "id", "tag" >>, IdRows(ids))) >>) :
                      ids \in MoreIdSeqs }
    /\ store = StoreUniverse
    /\ dry_run \in BOOLEAN
    /\ RunStart

SpecResolve == InitResolve /\ [][Next]_vars

-----------------------------------------------------------------------------
(* the helpers called on their own *)

HelperStart ==
    /\ yml = NoFilter
    /\ data = Unreadable
    /\ dry_run = FALSE
    /\ session = "open"
    /\ sheets = << >>
    /\ si = 0
    /\ ri = 0
    /\ n = 0
    /\ errors = 0
    /\ md_dict = NoDict
    /\ calls = << >>
    /\ results = << >>
    /\ reports = << >>
    /\ exc = "none"
    /\ ret = << >>

SearchIdentifiers == { << "a" >>, << "a", "b" >>, << "b" >>, << "a", "_" >> }

SearchArgs ==
    [workingdirectory : {WD, WDSub}, identifier : SearchIdentifiers,
     exact_match : BOOLEAN]

HelperTables ==
    { Table(<< "id", "tag" >>, IdRows(ids)) : ids \in MoreIdSeqs }

QueryArgs ==
    [df : HelperTables, filename_column : {"id"}, workingdirectory : {WD, WDSub},
     exact_match : BOOLEAN]

ChainArgs ==
    [df : HelperTables \cup {NoIdTable(1)}, filename_column : {"id"},
     workingdirectory : {WD, WD \o << "/" >>, BadWorkdir}]

InitHelper ==
    /\ HelperStart
    /\ \/ pc = "call search" /\ args \in SearchArgs /\ store \in Stores
       \/ pc = "call query" /\ args \in QueryArgs
                            /\ store \in {StoreUniverse, << >>}
       \/ pc = "call chain" /\ args \in ChainArgs /\ store = StoreUniverse

helperUnchanged ==
    << yml, data, store, dry_run, session, sheets, si, ri, n, errors,
       md_dict, results, reports, exc, args >>

CallSearch ==
    /\ pc = "call search"
    /\ ret' = search_objects_with_identifier(
                  store, args.workingdirectory, args.identifier, args.exact_match)
    /\ calls' = Append(calls, SearchCall(args.workingdirectory, args.identifier))
    /\ pc' = "search returned"
    /\ UNCHANGED helperUnchanged

CallQuery ==
    /\ pc = "call query"
    /\ LET q == query_dataobjects_with_filename(
                    store, args.df, args.filename_column, args.workingdirectory,
                    args.exact_match)
       IN  /\ ret' = [exc |-> q.exc, df |-> q.df]
           /\ calls' = calls \o q.calls
    /\ pc' = "query returned"
    /\ UNCHANGED helperUnchanged

CallChain ==
    /\ pc = "call chain"
    /\ ret' = chain_collection_and_filename(
                  args.df, args.filename_column, args.workingdirectory)
    /\ pc' = "chain returned"
    /\ UNCHANGED << helperUnchanged, calls >>

NextHelper == CallSearch \/ CallQuery \/ CallChain

SpecHelper == InitHelper /\ [][NextHelper]_vars

-----------------------------------------------------------------------------
(* Vocabulary of the properties *)

StartsWith(s, p) == Len(p) <= Len(s) /\ SubSeq(s, 1, Len(p)) = p

\* the object at path exists and takes the attributes
TargetOk(st, path) == \E i \in Lookup(st, path) : st[i].writable

CurRows == sheets[si].df.rows

\* the loop is about to hand row ri of sheet si to the loop body
AtRow ==
    /\ pc = "rows"
    /\ ri <= Len(CurRows)
    /\ DATAOBJECT \in DOMAIN CurRows[ri]

RowsWhere(rws, st, ok) ==
    Cardinality({ i \in 1..Len(rws) : TargetOk(st, rws[i][DATAOBJECT]) = ok })

Finished == pc = "done" /\ exc = "none"

IsMutating(c) == c.op = "add"

IsRowCall(c) == c.op \in {"get", "add"}

-----------------------------------------------------------------------------
(* C1 *)

\* C1: in a non-dry run a row whose target is not found, or whose attribute
\* add raises, is counted as one error and nothing else: applied_count is
\* unchanged, no exception leaves the loop body, the store is untouched and
\* the loop goes on with the next row; a run that ends normally has reported
\* every resolved sheet with applied = rows whose target took the attributes
\* and errors = the other rows.
C1_FailedRowIsCounted ==
    /\ [][ (AtRow /\ ~dry_run /\ ~TargetOk(store, CurRows[ri][DATAOBJECT]))
           => /\ errors' = errors + 1
              /\ n' = n
              /\ exc' = "none"
              /\ pc' = "rows"
              /\ ri' = ri + 1
              /\ si' = si
              /\ store' = store ]_vars
    /\ [](Finished /\ ~dry_run
          => /\ Len(reports) = Len(sheets)
             /\ \A k \in 1..Len(reports) :
                   /\ reports[k].sheet = sheets[k].name
                   /\ reports[k].applied = RowsWhere(sheets[k].df.rows, store, TRUE)
                   /\ reports[k].errors = RowsWhere(sheets[k].df.rows, store, FALSE))

\* C1 witness: a sheet of two resolved rows whose first target is missing
\* was reported with applied = 1 and errors = 1, and a later sheet too.
C1_Witness ==
    /\ Finished /\ ~dry_run
    /\ Len(reports) = 2
    /\ reports[1].applied = 1 /\ reports[1].errors = 1
    /\ Len(results) >= 2
    /\ ~results[1].res /\ results[2].res
    /\ results[1].sheet = results[2].sheet

-----------------------------------------------------------------------------
(* C2 *)

\* C2 as stated: a dry run gives every row the outcome the real run gives
\* it, a target that is missing (or refuses the attributes) being an error
\* in both, and makes no mutating call.
C2_DryRunParity ==
    dry_run =>
        /\ \A k \in 1..Len(results) :
              results[k].res = TargetOk(store, results[k].path)
        /\ \A k \in 1..Len(calls) : ~IsMutating(calls[k])

\* C2 amended: a dry run counts every resolved row as applied and consults
\* the store for no row (no get, no add, no metadata written, no error
\* counted), while the real run gives a row the outcome "applied" exactly
\* when its target exists and takes the attributes; so the two outcome
\* sequences agree on those rows and on no other.
C2_DryRunAppliesAll ==
    /\ dry_run =>
          /\ \A k \in 1..Len(results) : results[k].res
          /\ \A k \in 1..Len(calls) : ~IsRowCall(calls[k])
          /\ \A i \in 1..Len(store) : store[i].avus = {}
          /\ errors = 0
    /\ ~dry_run =>
          \A k \in 1..Len(results) :
              results[k].res = TargetOk(store, results[k].path)

\* C2 witness: a dry run has counted as applied a row whose target is not
\* in the store.
C2_Witness ==
    /\ dry_run
    /\ Finished
    /\ \E k \in 1..Len(results) :
          results[k].res /\ Lookup(store, results[k].path) = {}

-----------------------------------------------------------------------------
(* C3 *)

KnownPathTypes == {"absolute", "relative", "part"}

\* what the specification calls a configuration error
InvalidConfig(y) ==
    \/ PathType(y) \notin KnownPathTypes
    \/ PathType(y) \in {"relative", "part"} /\ ~HasWorkdir(y)
    \/ "whitelist" \in DOMAIN y /\ "blacklist" \in DOMAIN y
    \/ HasWorkdir(y) /\ ~MatchesWorkdirShape(y.path_column.workdir)

\* C3 as stated: with an invalid configuration run stops before any remote
\* call: the session is never acquired, no search, get or add is made, and
\* no sheet is processed or reported.
C3_InvalidConfigAborts ==
    InvalidConfig(yml) =>
        /\ session = "none"
        /\ calls = << >>
        /\ sheets = << >>
        /\ results = << >>
        /\ reports = << >>

-----------------------------------------------------------------------------
(* C4 *)

ColumnSet(df) == SeqRange(df.columns)

\* the sheet of the file that a resolved sheet comes from
SourceOf(name) ==
    data.sheets[CHOOSE i \in 1..Len(data.sheets) : data.sheets[i].name = name].df

\* the columns of a resolved sheet before the filter is applied
Available(name) == ColumnSet(ResolveSheet(yml, store, SourceOf(name)).df)

\* C4 as stated: of the columns available in a resolved sheet that has the
\* target column, a whitelist W keeps {dataobject} \cup (W \cap available), a
\* blacklist B keeps available \ B and the target column whatever B lists,
\* and no filter keeps them all.
C4_FilterKeepsTarget ==
    \A k \in 1..Len(sheets) :
        LET available == Available(sheets[k].name)
            kept == ColumnSet(sheets[k].df)
        IN  DATAOBJECT \in available =>
              /\ DATAOBJECT \in kept
              /\ ("whitelist" \in DOMAIN yml /\ "blacklist" \notin DOMAIN yml)
                    => kept = {DATAOBJECT} \cup
                              (SeqRange(yml.whitelist) \cap available)
              /\ ("blacklist" \in DOMAIN yml /\ "whitelist" \notin DOMAIN yml)
                    => kept = (available \ SeqRange(yml.blacklist))
                              \cup {DATAOBJECT}
              /\ ("blacklist" \notin DOMAIN yml /\ "whitelist" \notin DOMAIN yml)
                    => kept = available

-----------------------------------------------------------------------------
(* C5 *)

\* what the search returns for source row i of the table handed to the query
MatchesOf(i) ==
    search_objects_with_identifier(store, args.workingdirectory,
        args.df.rows[i][args.filename_column], args.exact_match)

\* the number of output rows that source rows before i contribute
RECURSIVE Offset(_)
Offset(i) == IF i <= 1 THEN 0 ELSE Offset(i - 1) + Len(MatchesOf(i - 1))

\* C5: query_dataobjects_with_filename gives source row i one output row per
\* path its search returns, none when it returns none; the output rows stand
\* in source order and, within a source row, in result order; each holds
\* the source row's other columns unchanged and the path under "dataobject",
\* and not the identifier column; the columns are the other columns plus
\* "dataobject", also when there is no row at all.
C5_PartExpansion ==
    pc = "query returned" =>
        LET src == args.df.rows
            out == ret.df.rows
            others == DropCol(args.df.columns, args.filename_column)
        IN  /\ ret.exc = "none"
            /\ Len(out) = Offset(Len(src) + 1)
            /\ \A i \in 1..Len(src) : \A m \in 1..Len(MatchesOf(i)) :
                  LET row == out[Offset(i) + m]
                  IN  /\ row[DATAOBJECT] = MatchesOf(i)[m]
                      /\ DOMAIN row = SeqRange(others) \cup {DATAOBJECT}
                      /\ \A c \in SeqRange(others) : row[c] = src[i][c]
            /\ ret.df.columns = Append(others, DATAOBJECT)
            /\ Len(calls) = Len(src)

\* C5 witness: a table whose first row has no match and whose second row
\* has five was expanded to five rows, each with the second row's tag.
C5_Witness ==
    /\ pc = "query returned"
    /\ Len(args.df.rows) = 2
    /\ Len(MatchesOf(1)) = 0
    /\ Len(MatchesOf(2)) = 5
    /\ Len(ret.df.rows) = 5
    /\ ret.df.rows[5].tag = << "2" >>

\* the empty case of C5 is reached too: no row of two matches, and the
\* result is the empty table with the columns tag, dataobject
C5_EmptyCase ==
    /\ pc = "query returned"
    /\ Len(args.df.rows) = 2
    /\ ret.df = Table(<< "tag", DATAOBJECT >>, << >>)

-----------------------------------------------------------------------------
(* C6 *)

PosIn(names, x) == CHOOSE i \in 1..Len(names) : names[i] = x

DataNames == [i \in 1..Len(data.sheets) |-> data.sheets[i].name]

\* rows are applied and sheets reported in the order names gives
ProcessedInOrderOf(names) ==
    /\ \A k \in 1..Len(sheets) : sheets[k].name \in SeqRange(names)
    /\ \A k, l \in 1..Len(sheets) :
          k < l => PosIn(names, sheets[k].name) < PosIn(names, sheets[l].name)
    /\ \A k, l \in 1..Len(results) :
          k < l => PosIn(names, results[k].sheet) <= PosIn(names, results[l].sheet)
    /\ \A k, l \in 1..Len(reports) :
          k < l => PosIn(names, reports[k].sheet) < PosIn(names, reports[l].sheet)

\* C6 as stated: the selected sheets are processed and reported in the order
\* in which Config.sheets declares them.
C6_ConfigOrder == ProcessedInOrderOf(yml.sheets)

\* C6 amended: Config.sheets only selects; the selected sheets are processed
\* and reported in the order in which they occur in the source dataset.
C6_DatasetOrder ==
    /\ ProcessedInOrderOf(DataNames)
    /\ \A k \in 1..Len(sheets) : sheets[k].name \in SeqRange(yml.sheets)

\* C6 witness: two sheets were reported, the one Config.sheets declares
\* second first.
C6_Witness ==
    /\ Finished
    /\ Len(reports) = 2
    /\ Len(yml.sheets) = 2
    /\ reports[1].sheet = yml.sheets[2]
    /\ reports[2].sheet = yml.sheets[1]
    /\ Len(results) >= 2

-----------------------------------------------------------------------------
(* C7 *)

\* a sheet of the file the claim says is skipped: not selected, or without
\* the identifier column
IsSkipped(sh) ==
    \/ sh.name \notin SeqRange(yml.sheets)
    \/ ~HasColumn(sh.df, yml.path_column.column_name)

Skipped ==
    { data.sheets[i].name :
          i \in { j \in 1..Len(data.sheets) : IsSkipped(data.sheets[j]) } }

\* the other sheets, which are reported unless "part" found them no match
HasMatch(sh) ==
    PathType(yml) = "part" =>
        \E i \in 1..Len(sh.df.rows) :
            search_objects_with_identifier(store, yml.path_column.workdir,
                sh.df.rows[i][yml.path_column.column_name], FALSE) # << >>

ExpectedNames ==
    LET kept == SelectSeq(data.sheets,
                    LAMBDA sh : ~IsSkipped(sh) /\ HasMatch(sh))
    IN  [i \in 1..Len(kept) |-> kept[i].name]

\* C7 as stated: a sheet that is not selected, or is absent, or lacks the
\* identifier column is skipped under every path type: no remote call is
\* made for it, no row of it is counted, no error is raised, and the other
\* sheets are processed and reported.
C7_SheetsSkipped ==
    /\ \A k \in 1..Len(calls) : calls[k].sheet \notin Skipped
    /\ \A k \in 1..Len(results) : results[k].sheet \notin Skipped
    /\ \A k \in 1..Len(reports) : reports[k].sheet \notin Skipped
    /\ exc # "KeyError"
    /\ pc = "done" /\ exc # "UnboundLocalError"
          => [k \in 1..Len(reports) |-> reports[k].sheet] = ExpectedNames

-----------------------------------------------------------------------------
(* C8 *)

BeginsWithZoneHome(s) == ZoneHomeLen(s) > 0

IsRooted(s) == s # << >> /\ s[1] = "/"

HasWildcard(s) == \E i \in 1..Len(s) : s[i] \in {"%", "_"}

ResultsOf(name) == SelectSeq(results, LAMBDA r : r.sheet = name)

\* C8 as stated: every identifier handed to the loop body begins with
\* /{zone}/home/, whatever the identifier column holds.
C8_AlwaysUnderHome ==
    \A k \in 1..Len(results) : BeginsWithZoneHome(results[k].path)

\* C8 amended: the identifier is the cell itself under "absolute", the
\* path-join of workdir and the cell under "relative", and the path of a
\* catalog object whose collection matches workdir% under "part".  It begins
\* with /{zone}/home/ under "part" when workdir has the /{zone}/home/{project}
\* shape and holds no LIKE wildcard (% or _), under "relative" when workdir
\* has that shape and the cell is a relative path with a component other
\* than ".", and under "absolute" exactly when the cell itself does.
C8_UnderHomeWhenInputIs ==
    \A k \in 1..Len(sheets) :
        LET name == sheets[k].name
            src  == SourceOf(name).rows
            got  == ResultsOf(name)
            col  == yml.path_column.column_name
        IN  \A j \in 1..Len(got) :
            CASE PathType(yml) = "part" ->
                    /\ \E i \in 1..Len(store) : got[j].path = ObjPath(store[i])
                    /\ (MatchesWorkdirShape(yml.path_column.workdir)
                        /\ ~HasWildcard(yml.path_column.workdir))
                       => /\ StartsWith(got[j].path, yml.path_column.workdir)
                          /\ BeginsWithZoneHome(got[j].path)
              [] PathType(yml) = "relative" ->
                    /\ got[j].path = PathJoin(yml.path_column.workdir, src[j][col])
                    /\ (MatchesWorkdirShape(yml.path_column.workdir)
                        /\ ~IsRooted(src[j][col])
                        /\ PathParts(src[j][col]) # << >>)
                       => BeginsWithZoneHome(got[j].path)
              [] OTHER ->
                    /\ got[j].path = src[j][col]
                    /\ BeginsWithZoneHome(got[j].path)
                       <=> BeginsWithZoneHome(src[j][col])

\* C8 witness: under "relative" a bare name was resolved to a path under
\* the working directory and the object found there.
C8_Witness ==
    /\ PathType(yml) = "relative"
    /\ ~dry_run
    /\ \E k \in 1..Len(results) :
          /\ results[k].path = WD \o << "/", "a" >>
          /\ results[k].res
    /\ \E k \in 1..Len(results) :
          /\ results[k].path = << "/", "a" >>

-----------------------------------------------------------------------------
(* C9 *)

\* the collection is workdir or lies below it
InSubtree(coll, workdir) ==
    coll = workdir \/ StartsWith(coll, workdir \o << "/" >>)

NameMatches(name, identifier, exact_match) ==
    IF exact_match THEN name = identifier ELSE StartsWith(name, identifier)

\* C9 as stated: the search returns exactly the paths of the objects in the
\* subtree rooted at workdir (no sibling collection that shares a prefix)
\* whose name equals the identifier (exact) or starts with it (not exact).
C9_SearchExact ==
    pc = "search returned" =>
        SeqRange(ret) =
            { ObjPath(store[i]) :
                i \in { j \in 1..Len(store) :
                          /\ InSubtree(store[j].coll, args.workingdirectory)
                          /\ NameMatches(store[j].name, args.identifier,
                                         args.exact_match) } }

-----------------------------------------------------------------------------
(* C10 *)

\* C10: chain_collection_and_filename on a table that has the identifier
\* column returns as many rows in the same order, with the identifier column
\* renamed to "dataobject" in its place, every other cell unchanged and
\* each identifier replaced by the path-join of workdir and the cell; it
\* makes no remote call.
C10_RelativeChaining ==
    (pc = "chain returned" /\ HasColumn(args.df, args.filename_column)) =>
        LET src == args.df.rows
            out == ret.df.rows
        IN  /\ ret.exc = "none"
            /\ Len(out) = Len(src)
            /\ Len(ret.df.columns) = Len(args.df.columns)
            /\ \A c \in 1..Len(args.df.columns) :
                  ret.df.columns[c] =
                      IF args.df.columns[c] = args.filename_column
                      THEN DATAOBJECT ELSE args.df.columns[c]
            /\ \A i \in 1..Len(src) :
                  /\ out[i][DATAOBJECT] =
                        PathJoin(args.workingdirectory, src[i][args.filename_column])
                  /\ DOMAIN out[i] =
                        (DOMAIN src[i] \ {args.filename_column}) \cup {DATAOBJECT}
                  /\ \A c \in DOMAIN src[i] \ {args.filename_column} :
                        out[i][c] = src[i][c]
            /\ calls = << >>
            /\ store = StoreUniverse

\* C10 witness: the rows "a" and "s/a" chained to /z/home/p/ came back as
\* /z/home/p/a and /z/home/p/s/a, in that order.
C10_Witness ==
    /\ pc = "chain returned"
    /\ args.workingdirectory = WD \o << "/" >>
    /\ Len(args.df.rows) = 2
    /\ args.df.rows[1].id = << "a" >>
    /\ args.df.rows[2].id = << "s", "/", "a" >>
    /\ ret.df.rows[1][DATAOBJECT] = WD \o << "/", "a" >>
    /\ ret.df.rows[2][DATAOBJECT] = WDSub \o << "/", "a" >>
    /\ ret.df.rows[2].tag = << "2" >>

-----------------------------------------------------------------------------
(* C11 *)

SessionCalls == { k \in 1..Len(calls) : calls[k].op = "session" }

\* C11: run acquires the session exactly once, before any sheet is parsed or
\* processed and before any remote call; the session is open all through the
\* batch; a run that has ended, by normal completion or by an error raised
\* while parsing, resolving, iterating or reporting, has released the
\* session; after the release no remote call is made and the session is not
\* acquired again.
C11_SessionScope ==
    /\ [](session = "none" => /\ calls = << >>
                              /\ sheets = << >>
                              /\ pc \in {"start", "connect"})
    /\ [](session # "none" => SessionCalls = {1})
    /\ [](pc \in {"process", "sheet", "rows", "exit"} => session = "open")
    /\ [](pc = "done" => session = "closed")
    /\ [][session = "closed" => calls' = calls /\ session' = "closed"]_vars

\* C11 witness: the run ended with the session released by a KeyError raised
\* while the second sheet was iterated, after the first sheet had been
\* written to the catalog and reported.
C11_Witness ==
    /\ pc = "done"
    /\ session = "closed"
    /\ exc = "KeyError"
    /\ Len(reports) = 1
    /\ \E k \in 1..Len(calls) : calls[k].op = "add"

-----------------------------------------------------------------------------
(* C12 *)

SheetNames == {"s1", "s2", "s3"}

\* the sheet is selected, is in the dataset and has the identifier column
Eligible(nm) ==
    /\ nm \in SeqRange(yml.sheets)
    /\ \E i \in 1..Len(data.sheets) :
          /\ data.sheets[i].name = nm
          /\ HasColumn(data.sheets[i].df, yml.path_column.column_name)

ReportsOf(nm) == { k \in 1..Len(reports) : reports[k].sheet = nm }

Reported(nm) == ReportsOf(nm) # {}

ResolvedSheet(nm) == sheets[CHOOSE i \in 1..Len(sheets) : sheets[i].name = nm]

OutcomesOf(nm, ok) ==
    Cardinality({ k \in 1..Len(results) :
                    results[k].sheet = nm /\ results[k].res = ok })

\* the report is the sheet's own: its counts are those of the sheet's rows
\* and its keys the sheet's columns beside the target column
OwnResult(r) ==
    LET sh == ResolvedSheet(r.sheet)
    IN  /\ r.applied = OutcomesOf(r.sheet, TRUE)
        /\ r.errors = OutcomesOf(r.sheet, FALSE)
        /\ r.applied + r.errors = Len(sh.df.rows)
        /\ r.keys = ColumnSet(sh.df) \ {DATAOBJECT}

\* C12 as stated: a sheet is processed before it is reported; it is reported
\* exactly once, with its own applied_count, error_count and attribute keys;
\* a report, once made, is never changed; and every selected sheet that is in
\* the dataset and has the identifier column is eventually reported once the
\* batch has begun, also when its resolved table has zero rows.
C12_SheetLifecycle ==
    /\ [](pc = "rows" => ~Reported(sheets[si].name))
    /\ [](\A k \in 1..Len(reports) :
              /\ ReportsOf(reports[k].sheet) = {k}
              /\ OwnResult(reports[k]))
    /\ [][Len(reports') >= Len(reports)
            /\ SubSeq(reports', 1, Len(reports)) = reports]_vars
    /\ \A nm \in SheetNames :
          (pc = "sheet" /\ Eligible(nm)) ~> Reported(nm)

-----------------------------------------------------------------------------
(* C13 *)

\* C13: while run processes a sheet, applied_count + error_count is the
\* number of rows of the sheet's resolved table consumed so far, applied_count
\* counting the rows that gave True and error_count the others; both are 0
\* when the sheet's loop begins; every row consumed adds exactly one to
\* exactly one of the two; and the counts reported for the sheet add up to
\* the row count of its resolved table.
C13_CounterInvariant ==
    /\ [](pc = "rows" =>
             /\ n + errors = ri - 1
             /\ ri - 1 <= Len(CurRows)
             /\ n = OutcomesOf(sheets[si].name, TRUE)
             /\ errors = OutcomesOf(sheets[si].name, FALSE))
    /\ [][(pc = "sheet" /\ pc' = "rows") => (n' = 0 /\ errors' = 0 /\ ri' = 1)]_vars
    /\ [][AtRow =>
             /\ ri' = ri + 1
             /\ \/ n' = n + 1 /\ errors' = errors
                \/ n' = n /\ errors' = errors + 1]_vars
    /\ [][~AtRow /\ pc # "sheet" => (n' = n /\ errors' = errors)]_vars
    /\ [][Len(reports') > Len(reports) =>
             LET r == reports'[Len(reports')]
             IN  /\ r.sheet = sheets[si].name
                 /\ r.applied = n
                 /\ r.errors = errors
                 /\ r.applied + r.errors = Len(CurRows)]_vars

\* C13 witness: the run ended with two sheets reported, the first with one row
\* applied and one in error, the second with its single row applied.
C13_Witness ==
    /\ pc = "done"
    /\ Len(reports) = 2
    /\ reports[1].applied = 1 /\ reports[1].errors = 1
    /\ reports[2].applied = 1 /\ reports[2].errors = 0
    /\ Len(sheets[1].df.rows) = 2
    /\ Len(sheets[2].df.rows) = 1

=============================================================================
